---- MODULE Spec2Model ----
(***************************************************************************)
(* Bijective base-6 conversion between positive integers and codes over    *)
(* the alphabet "123456", as implemented twice in the repository:          *)
(*   src/mymath.cpp      helper functions *_impl plus Python wrappers      *)
(*   src/mymath_cpp.cpp  the same algorithm written inside the wrappers    *)
(* A behaviour is one call of one of the four entry points, stepped one    *)
(* loop iteration at a time, optionally followed by a second call made by  *)
(* the same caller (the record `prev` keeps the first call's outcome).     *)
(***************************************************************************)
EXTENDS Integers, Sequences, FiniteSets, TLC

VARIABLES
    variant,     \* which source file serves the call
    op,          \* "encode" (to_bijective_base6) or "decode" (from_bijective_base6)
    arg,         \* the parsed argument: a long long, or the characters of s
    pc,          \* position of the call in the code
    n,           \* the local `long long n`
    result_str,  \* the local std::string of encode
    i,           \* number of characters of s already consumed by decode
    impl_ret,    \* value returned by a *_impl helper to its wrapper (mymath.cpp)
    err,         \* the interpreter's error indicator (PyErr_SetString / PyErr_Occurred)
    ret,         \* what the entry point hands back to the caller
    prev,        \* outcome of the caller's previous call, if any
    ovf          \* what an overflowing signed product evaluates to in this build

vars == <<variant, op, arg, pc, n, result_str, i, impl_ret, err, ret, prev, ovf>>

(***************************************************************************)
(* long long: 64-bit two's complement, kept as four 16-bit limbs, least    *)
(* significant first, because TLC's integers are 32 bits wide.              *)
(***************************************************************************)
LimbBase == 2^16

Int64Min == <<0, 0, 0, LimbBase \div 2>>

Int64Max == <<LimbBase - 1, LimbBase - 1, LimbBase - 1, (LimbBase \div 2) - 1>>

Zero64 == <<0, 0, 0, 0>>

\* x < 0
SignBit(x) == x[4] >= LimbBase \div 2

\* x > 0
Positive64(x) == ~SignBit(x) /\ x # Zero64

\* the 64-bit pattern of x * k and the carry out of bit 63 (0 <= k < 2^14)
MulU64(x, k) ==
    LET t1 == x[1] * k
        t2 == x[2] * k + (t1 \div LimbBase)
        t3 == x[3] * k + (t2 \div LimbBase)
        t4 == x[4] * k + (t3 \div LimbBase)
    IN  [val   |-> <<t1 % LimbBase, t2 % LimbBase, t3 % LimbBase, t4 % LimbBase>>,
         carry |-> t4 \div LimbBase]

\* unsigned x + k modulo 2^64 (0 <= k < LimbBase)
AddU64(x, k) ==
    LET t1 == x[1] + k
        t2 == x[2] + (t1 \div LimbBase)
        t3 == x[3] + (t2 \div LimbBase)
        t4 == x[4] + (t3 \div LimbBase)
    IN  <<t1 % LimbBase, t2 % LimbBase, t3 % LimbBase, t4 % LimbBase>>

\* two's complement negation
Neg64(x) ==
    AddU64(<<LimbBase - 1 - x[1], LimbBase - 1 - x[2],
             LimbBase - 1 - x[3], LimbBase - 1 - x[4]>>, 1)

\* n-- for n > 0
Dec64(x) ==
    IF x[1] > 0 THEN <<x[1] - 1, x[2], x[3], x[4]>>
    ELSE IF x[2] > 0 THEN <<LimbBase - 1, x[2] - 1, x[3], x[4]>>
    ELSE IF x[3] > 0 THEN <<LimbBase - 1, LimbBase - 1, x[3] - 1, x[4]>>
    ELSE <<LimbBase - 1, LimbBase - 1, LimbBase - 1,
           (x[4] + LimbBase - 1) % LimbBase>>

\* quotient and remainder of x >= 0 by d (0 < d < 2^14), by long division
DivMod64(x, d) ==
    LET c4 == x[4]
        c3 == (c4 % d) * LimbBase + x[3]
        c2 == (c3 % d) * LimbBase + x[2]
        c1 == (c2 % d) * LimbBase + x[1]
    IN  [quot |-> <<c1 \div d, c2 \div d, c3 \div d, c4 \div d>>,
         rem  |-> c1 % d]

\* does the signed product x * k fit a long long?
MulFits64(x, k) ==
    IF SignBit(x)
    THEN LET p == MulU64(Neg64(x), k)
         IN  p.carry = 0 /\ (~SignBit(p.val) \/ p.val = Int64Min)
    ELSE LET p == MulU64(x, k)
         IN  p.carry = 0 /\ ~SignBit(p.val)

\* Signed x * k. Overflow is undefined behaviour: the product is then whatever
\* the build makes of it, the wrapped pattern or some other long long.
OverflowResults == {"wrap", "min", "max"}

MulS64(x, k, o) ==
    IF MulFits64(x, k) \/ o = "wrap" THEN MulU64(x, k).val
    ELSE IF o = "min" THEN Int64Min
    ELSE Int64Max

\* the long long holding a small integer v
ToInt64(v) ==
    IF v >= 0 THEN <<v % LimbBase, v \div LimbBase, 0, 0>>
    ELSE Neg64(<<(-v) % LimbBase, (-v) \div LimbBase, 0, 0>>)

(***************************************************************************)
(* The alphabet and the values shared by both files.                       *)
(***************************************************************************)
ALPHABET == <<"1", "2", "3", "4", "5", "6">>

\* (mutation) the base taken from the size of the literal, terminator included
BASE_CountsTerminator == Len(ALPHABET) + 1

BASE == Len(ALPHABET)

Npos == -1

\* std::string::find(char): 0-based position of c, or npos
Find(str, c) ==
    IF \E k \in 1..Len(str) : str[k] = c
    THEN (CHOOSE k \in 1..Len(str) : str[k] = c /\ \A j \in 1..(k - 1) : str[j] # c) - 1
    ELSE Npos

\* (mutation) the digits are left least significant first
Reverse_Skipped(str) == str

\* std::reverse over the whole string
Reverse(str) == [k \in 1..Len(str) |-> str[Len(str) + 1 - k]]

\* the error indicator: clear, or the exception type and message last set
NoError == [type |-> "none", msg |-> ""]

PyErr_SetString(type, msg) == [type |-> type, msg |-> msg]

\* the terminator of a C string
NUL == "\\0"

\* str[k] of a std::string or string literal, 0-based: at k = length it reads the
\* terminator
CharAt(str, k) == IF k < Len(str) THEN str[k + 1] ELSE NUL

\* c_str() read as a C string: the characters before the first terminator
CStr(str) ==
    IF \E k \in 1..Len(str) : str[k] = NUL
    THEN SubSeq(str, 1, (CHOOSE k \in 1..Len(str) :
                            str[k] = NUL /\ \A j \in 1..(k - 1) : str[j] # NUL) - 1)
    ELSE str

Null == [tag |-> "NULL", val |-> <<>>]

PyUnicode_FromString(str) == [tag |-> "str", val |-> CStr(str)]

PyLong_FromLongLong(v) == [tag |-> "int", val |-> v]

NoCall == [variant |-> "none", op |-> "none", arg |-> <<>>, ret |-> Null, err |-> NoError]


\* the literal "123456" of mymath.cpp (a local of each helper)
chars == <<"1", "2", "3", "4", "5", "6">>

(***************************************************************************)
(* Arguments the caller may pass.                                          *)
(***************************************************************************)
MaxN == 45

MaxNeg == 5

MaxLen == 3

Variants == {"mymath", "mymath_cpp"}

\* characters of the short test strings: the alphabet and three strangers
TestChars == {"0", "1", "2", "3", "4", "5", "6", "7", "a"}

\* the code written with the digit values ds (1..6)
Code(ds) == [k \in 1..Len(ds) |-> ALPHABET[ds[k]]]

Repeat(c, len) == [k \in 1..len |-> c]

\* 10^7, the upper end of the documented round-trip range
TenMillion == <<38528, 152, 0, 0>>

CodeTenMillion == Code(<<5, 5, 4, 1, 5, 6, 1, 4, 4>>)

\* the codes of 2^63 - 1, 2^63, 2^64 - 1 and 2^64
CodeInt64Max == Code(<<1, 5, 3, 6, 2, 3, 6, 5, 6, 2, 6, 2, 6, 6, 2, 6, 2, 2, 2, 1, 2, 2, 2, 1, 1>>)

CodePastInt64Max == Code(<<1, 5, 3, 6, 2, 3, 6, 5, 6, 2, 6, 2, 6, 6, 2, 6, 2, 2, 2, 1, 2, 2, 2, 1, 2>>)

CodeUInt64Max == Code(<<3, 5, 1, 6, 5, 2, 1, 5, 6, 5, 6, 6, 1, 6, 5, 6, 4, 4, 4, 2, 4, 4, 4, 2, 3>>)

CodePastUInt64Max == Code(<<3, 5, 1, 6, 5, 2, 1, 5, 6, 5, 6, 6, 1, 6, 5, 6, 4, 4, 4, 2, 4, 4, 4, 2, 4>>)

\* The last and the first code of every length up to 25 and 26 symbols (24 is
\* the longest run of 6s that fits a long long), the codes around the ends of
\* the 64-bit range, and long strings with a stranger first or last.
LongCodes ==
    {Repeat("6", len) : len \in 1..25} \cup {Repeat("1", len) : len \in 1..26}
    \cup { CodeTenMillion, CodeInt64Max, CodePastInt64Max, CodeUInt64Max,
           CodePastUInt64Max,
           Repeat("6", 25) \o <<"a">>,
           CodePastInt64Max \o <<"0">>,
           <<"7">> \o Repeat("6", 25) }

\* 2^16, 2^32, 2^48 and 2^32 - 1: where the limbs of a long long carry
LimbEdges ==
    {<<0, 1, 0, 0>>, <<0, 0, 1, 0>>, <<0, 0, 0, 1>>,
     <<LimbBase - 1, LimbBase - 1, 0, 0>>}

EncodeInputs ==
    {ToInt64(v) : v \in (-MaxNeg)..MaxN}
    \cup {Int64Min, Int64Max, TenMillion} \cup LimbEdges

DecodeInputs ==
    UNION {[1..len -> TestChars] : len \in 0..MaxLen} \cup LongCodes


(***************************************************************************)
(* The state a call starts from: locals not yet set, no error pending.     *)
(***************************************************************************)
Enter(v, o, a) ==
    /\ variant' = v
    /\ op' = o
    /\ arg' = a
    /\ pc' = "entry"
    /\ n' = Zero64
    /\ result_str' = <<>>
    /\ i' = 0
    /\ impl_ret' = <<>>
    /\ err' = NoError
    /\ ret' = Null

Init ==
    /\ variant \in Variants
    /\ op \in {"encode", "decode"}
    /\ arg \in (IF op = "encode" THEN EncodeInputs ELSE DecodeInputs)
    /\ pc = "entry"
    /\ n = Zero64
    /\ result_str = <<>>
    /\ i = 0
    /\ impl_ret = <<>>
    /\ err = NoError
    /\ ret = Null
    /\ prev = NoCall
    /\ ovf \in OverflowResults

(***************************************************************************)
(* src/mymath_cpp.cpp                                                      *)
(***************************************************************************)
\* mymath_cpp.cpp 17: n <= 0
InvalidInputCpp(m) == ~Positive64(m)

\* (mutation) the empty string is not checked for
EmptyInputCpp_Unchecked(s) == FALSE

\* mymath_cpp.cpp 43: input_str.empty()
EmptyInputCpp(s) == Len(s) = 0

\* (mutation) the result of find is used unchecked
NotFoundCpp_Unchecked(pos) == FALSE

\* mymath_cpp.cpp 51: pos == std::string::npos
NotFoundCpp(pos) == pos = Npos

\* (mutation) the remainder is taken before n is decremented
EncodeBodyCpp_RemainderFirst(m, str) ==
    [n |-> DivMod64(Dec64(m), BASE).quot,
     result_str |-> Append(str, CharAt(ALPHABET, DivMod64(m, BASE).rem))]

\* one pass of the body of `while (n > 0)`: the new n and the new result_str
EncodeBodyCpp(m, str) ==
    LET d == DivMod64(Dec64(m), BASE)
    IN  [n |-> d.quot, result_str |-> Append(str, CharAt(ALPHABET, d.rem))]

\* mymath_cpp.cpp 11-22: the argument check of to_bijective_base6_cpp
to_bijective_base6_cpp_entry ==
    /\ pc = "entry" /\ variant = "mymath_cpp" /\ op = "encode"
    /\ IF InvalidInputCpp(arg)
       THEN /\ err' = PyErr_SetString("ValueError",
                    "Input must be a positive integer for bijective conversion.")
            /\ ret' = Null
            /\ pc' = "done"
       ELSE /\ pc' = "loop"
            /\ UNCHANGED <<err, ret>>
    /\ n' = arg
    /\ UNCHANGED <<variant, op, arg, result_str, i, impl_ret, prev, ovf>>

\* mymath_cpp.cpp 23-29
to_bijective_base6_cpp_loop ==
    /\ pc = "loop" /\ variant = "mymath_cpp" /\ op = "encode"
    /\ Positive64(n)
    /\ n' = EncodeBodyCpp(n, result_str).n
    /\ result_str' = EncodeBodyCpp(n, result_str).result_str
    /\ UNCHANGED <<variant, op, arg, pc, i, impl_ret, err, ret, prev, ovf>>

\* mymath_cpp.cpp 30-32
to_bijective_base6_cpp_return ==
    /\ pc = "loop" /\ variant = "mymath_cpp" /\ op = "encode"
    /\ ~Positive64(n)
    /\ result_str' = Reverse(result_str)
    /\ ret' = PyUnicode_FromString(Reverse(result_str))
    /\ pc' = "done"
    /\ UNCHANGED <<variant, op, arg, n, i, impl_ret, err, prev, ovf>>

\* (mutation) the +1 that undoes encode's decrement is left out
AccumulateCpp_NoCorrection(m, pos, o) == AddU64(MulS64(m, BASE, o), pos)

\* n * BASE + pos + 1: a signed product, then two unsigned additions (pos is a
\* size_t), converted back to long long
AccumulateCpp(m, pos, o) == AddU64(AddU64(MulS64(m, BASE, o), pos), 1)

\* mymath_cpp.cpp 36-48: the empty-string check of from_bijective_base6_cpp
from_bijective_base6_cpp_entry ==
    /\ pc = "entry" /\ variant = "mymath_cpp" /\ op = "decode"
    /\ IF EmptyInputCpp(arg)
       THEN /\ err' = PyErr_SetString("ValueError",
                    "Input string cannot be empty.")
            /\ ret' = Null
            /\ pc' = "done"
       ELSE /\ pc' = "loop"
            /\ UNCHANGED <<err, ret>>
    /\ n' = Zero64
    /\ i' = 0
    /\ UNCHANGED <<variant, op, arg, result_str, impl_ret, prev, ovf>>

\* mymath_cpp.cpp 49-56
from_bijective_base6_cpp_loop ==
    /\ pc = "loop" /\ variant = "mymath_cpp" /\ op = "decode"
    /\ i < Len(arg)
    /\ LET pos == Find(ALPHABET, arg[i + 1])
       IN  IF NotFoundCpp(pos)
           THEN /\ err' = PyErr_SetString("ValueError",
                        "Invalid character in short code. Only '1'-'6' are allowed.")
                /\ ret' = Null
                /\ pc' = "done"
                /\ UNCHANGED <<n, i>>
           ELSE /\ n' = AccumulateCpp(n, pos, ovf)
                /\ i' = i + 1
                /\ UNCHANGED <<err, ret, pc>>
    /\ UNCHANGED <<variant, op, arg, result_str, impl_ret, prev, ovf>>

\* mymath_cpp.cpp 58
from_bijective_base6_cpp_return ==
    /\ pc = "loop" /\ variant = "mymath_cpp" /\ op = "decode"
    /\ i = Len(arg)
    /\ ret' = PyLong_FromLongLong(n)
    /\ pc' = "done"
    /\ UNCHANGED <<variant, op, arg, n, result_str, i, impl_ret, err, prev, ovf>>

(***************************************************************************)
(* src/mymath.cpp                                                          *)
(***************************************************************************)
\* (mutation) the check written n < 0
InvalidInputImpl_ZeroAllowed(m) == SignBit(m)

\* mymath.cpp 9: n <= 0
InvalidInputImpl(m) == ~Positive64(m)

\* mymath.cpp 33: pos == std::string::npos
NotFoundImpl(pos) == pos = Npos

\* (mutation) plain base 6: n is not decremented before the division
EncodeBodyImpl_NoDecrement(m, str) ==
    LET d == DivMod64(m, 6)
    IN  [n |-> d.quot, result_str |-> Append(str, CharAt(chars, d.rem))]

EncodeBodyImpl(m, str) ==
    LET d == DivMod64(Dec64(m), 6)
    IN  [n |-> d.quot, result_str |-> Append(str, CharAt(chars, d.rem))]

\* mymath.cpp 44-49 and 8-14: the wrapper calls the helper, which checks n
to_bijective_base6_impl_entry ==
    /\ pc = "entry" /\ variant = "mymath" /\ op = "encode"
    /\ IF InvalidInputImpl(arg)
       THEN /\ err' = PyErr_SetString("ValueError",
                    "Input must be a positive integer")
            /\ impl_ret' = <<>>
            /\ pc' = "wrapper"
       ELSE /\ pc' = "loop"
            /\ UNCHANGED <<err, impl_ret>>
    /\ n' = arg
    /\ UNCHANGED <<variant, op, arg, result_str, i, ret, prev, ovf>>

\* mymath.cpp 16-22
to_bijective_base6_impl_loop ==
    /\ pc = "loop" /\ variant = "mymath" /\ op = "encode"
    /\ Positive64(n)
    /\ n' = EncodeBodyImpl(n, result_str).n
    /\ result_str' = EncodeBodyImpl(n, result_str).result_str
    /\ UNCHANGED <<variant, op, arg, pc, i, impl_ret, err, ret, prev, ovf>>

\* mymath.cpp 23-24
to_bijective_base6_impl_return ==
    /\ pc = "loop" /\ variant = "mymath" /\ op = "encode"
    /\ ~Positive64(n)
    /\ result_str' = Reverse(result_str)
    /\ impl_ret' = Reverse(result_str)
    /\ pc' = "wrapper"
    /\ UNCHANGED <<variant, op, arg, n, i, err, ret, prev, ovf>>

\* mymath.cpp 49-53: the wrapper to_bijective_base6_cpp after the helper
mymath_to_bijective_base6_cpp ==
    /\ pc = "wrapper" /\ variant = "mymath" /\ op = "encode"
    /\ ret' = IF err # NoError THEN Null ELSE PyUnicode_FromString(impl_ret)
    /\ pc' = "done"
    /\ UNCHANGED <<variant, op, arg, n, result_str, i, impl_ret, err, prev, ovf>>

\* (mutation) the +1 that undoes encode's decrement is left out
AccumulateImpl_NoCorrection(m, pos, o) == AddU64(MulS64(m, 6, o), pos)

\* n * 6 + pos + 1
AccumulateImpl(m, pos, o) == AddU64(AddU64(MulS64(m, 6, o), pos), 1)

\* mymath.cpp 56-61 and 27-29: the wrapper calls the helper
from_bijective_base6_impl_entry ==
    /\ pc = "entry" /\ variant = "mymath" /\ op = "decode"
    /\ n' = Zero64
    /\ i' = 0
    /\ pc' = "loop"
    /\ UNCHANGED <<variant, op, arg, result_str, impl_ret, err, ret, prev, ovf>>

\* mymath.cpp 31-38
from_bijective_base6_impl_loop ==
    /\ pc = "loop" /\ variant = "mymath" /\ op = "decode"
    /\ i < Len(arg)
    /\ LET pos == Find(chars, arg[i + 1])
       IN  IF NotFoundImpl(pos)
           THEN /\ err' = PyErr_SetString("ValueError",
                        "Invalid character in short code")
                /\ impl_ret' = ToInt64(-1)
                /\ pc' = "wrapper"
                /\ UNCHANGED <<n, i>>
           ELSE /\ n' = AccumulateImpl(n, pos, ovf)
                /\ i' = i + 1
                /\ UNCHANGED <<err, impl_ret, pc>>
    /\ UNCHANGED <<variant, op, arg, result_str, ret, prev, ovf>>

\* mymath.cpp 39
from_bijective_base6_impl_return ==
    /\ pc = "loop" /\ variant = "mymath" /\ op = "decode"
    /\ i = Len(arg)
    /\ impl_ret' = n
    /\ pc' = "wrapper"
    /\ UNCHANGED <<variant, op, arg, n, result_str, i, err, ret, prev, ovf>>

\* mymath.cpp 61-65: the wrapper from_bijective_base6_cpp after the helper
mymath_from_bijective_base6_cpp ==
    /\ pc = "wrapper" /\ variant = "mymath" /\ op = "decode"
    /\ ret' = IF err # NoError THEN Null ELSE PyLong_FromLongLong(impl_ret)
    /\ pc' = "done"
    /\ UNCHANGED <<variant, op, arg, n, result_str, i, impl_ret, err, prev, ovf>>

(***************************************************************************)
(* The caller. After a first call it may make one more: the same call on   *)
(* the other build, the inverse operation on the value it got, or another  *)
(* encode. The interpreter has cleared the error indicator by then.        *)
(***************************************************************************)
Outcome == [variant |-> variant, op |-> op, arg |-> arg, ret |-> ret, err |-> err]

CallerRepeats ==
    /\ pc = "done" /\ prev = NoCall
    /\ prev' = Outcome
    /\ \E v \in Variants \ {variant} : Enter(v, op, arg)
    /\ UNCHANGED ovf

CallerInverts ==
    /\ pc = "done" /\ prev = NoCall
    /\ ret # Null
    /\ prev' = Outcome
    /\ \E v \in Variants :
          Enter(v, IF op = "encode" THEN "decode" ELSE "encode", ret.val)
    /\ UNCHANGED ovf

CallerEncodesAnother ==
    /\ pc = "done" /\ prev = NoCall
    /\ op = "encode"
    /\ prev' = Outcome
    /\ \E v \in Variants, a \in EncodeInputs : Enter(v, "encode", a)
    /\ UNCHANGED ovf

Step ==
    \/ to_bijective_base6_cpp_entry
    \/ to_bijective_base6_cpp_loop
    \/ to_bijective_base6_cpp_return
    \/ from_bijective_base6_cpp_entry
    \/ from_bijective_base6_cpp_loop
    \/ from_bijective_base6_cpp_return
    \/ to_bijective_base6_impl_entry
    \/ to_bijective_base6_impl_loop
    \/ to_bijective_base6_impl_return
    \/ mymath_to_bijective_base6_cpp
    \/ from_bijective_base6_impl_entry
    \/ from_bijective_base6_impl_loop
    \/ from_bijective_base6_impl_return
    \/ mymath_from_bijective_base6_cpp

Next ==
    \/ Step
    \/ CallerRepeats
    \/ CallerInverts
    \/ CallerEncodesAnother

Spec == Init /\ [][Next]_vars

\* Encode calls alone as first calls, with the fairness the code has: a call,
\* once started, runs to its return (nothing in it waits or yields).
EncodeInit == Init /\ op = "encode"

EncodeFairSpec == EncodeInit /\ [][Next]_vars /\ WF_vars(Step)


(***************************************************************************)
(* Reference notions the properties are stated with. None of them is used  *)
(* by the actions above.                                                   *)
(***************************************************************************)
Symbols == {"1", "2", "3", "4", "5", "6"}

\* a code: a non-empty string over '1'..'6'
IsCode(s) == Len(s) >= 1 /\ \A k \in 1..Len(s) : s[k] \in Symbols

DigitValue(c) ==
    CASE c = "1" -> 1 [] c = "2" -> 2 [] c = "3" -> 3
      [] c = "4" -> 4 [] c = "5" -> 5 [] c = "6" -> 6
      [] OTHER -> 0

\* Unbounded naturals: limbs of LimbBase, least significant first, no zero
\* limb at the top; zero is the empty sequence.
RECURSIVE BigAdd(_, _, _)
BigAdd(a, b, carry) ==
    IF a = <<>> /\ b = <<>>
    THEN IF carry = 0 THEN <<>> ELSE <<carry>>
    ELSE LET x == IF a = <<>> THEN 0 ELSE Head(a)
             y == IF b = <<>> THEN 0 ELSE Head(b)
             t == x + y + carry
         IN  <<t % LimbBase>> \o BigAdd(IF a = <<>> THEN a ELSE Tail(a),
                                         IF b = <<>> THEN b ELSE Tail(b),
                                         t \div LimbBase)

\* a * k + carry, for 0 < k < 2^14
RECURSIVE BigScale(_, _, _)
BigScale(a, k, carry) ==
    IF a = <<>>
    THEN IF carry = 0 THEN <<>> ELSE <<carry>>
    ELSE LET t == Head(a) * k + carry
         IN  <<t % LimbBase>> \o BigScale(Tail(a), k, t \div LimbBase)

\* 6^j
RECURSIVE BigPow6(_)
BigPow6(j) == IF j = 0 THEN <<1>> ELSE BigScale(BigPow6(j - 1), 6, 0)

\* sum over i of value(d_i) * 6^(k-i), for the code d_1 ... d_k
RECURSIVE PosValue(_)
PosValue(code) ==
    IF code = <<>> THEN <<>>
    ELSE BigAdd(BigScale(BigPow6(Len(code) - 1), DigitValue(Head(code)), 0),
                PosValue(Tail(code)), 0)

\* below 2^63
FitsInt64(b) == Len(b) < 4 \/ (Len(b) = 4 /\ b[4] < LimbBase \div 2)

\* the long long with the value b < 2^63, and back
Int64OfBig(b) == [k \in 1..4 |-> IF k <= Len(b) THEN b[k] ELSE 0]

RECURSIVE Normal(_)
Normal(b) ==
    IF b = <<>> \/ b[Len(b)] # 0 THEN b ELSE Normal(SubSeq(b, 1, Len(b) - 1))

BigOfInt64(x) == Normal(x)

\* signed a < b
Less64(a, b) ==
    IF SignBit(a) # SignBit(b) THEN SignBit(a)
    ELSE \E k \in 1..4 :
            /\ a[k] < b[k]
            /\ \A j \in (k + 1)..4 : a[j] = b[j]

\* shorter first, then symbol order within equal length
ShortlexLess(c, d) ==
    \/ Len(c) < Len(d)
    \/ /\ Len(c) = Len(d)
       /\ \E k \in 1..Len(c) :
             /\ DigitValue(c[k]) < DigitValue(d[k])
             /\ \A j \in 1..(k - 1) : c[j] = d[j]

\* position of the code c (of at most 3 symbols) in the shortlex list of codes
ShortCodes == UNION {[1..len -> Symbols] : len \in 1..3}

Rank(c) == Cardinality({d \in ShortCodes : ShortlexLess(d, c)}) + 1

\* long longs below 2^30, and their value as a plain integer
IsSmall(x) == x[3] = 0 /\ x[4] = 0 /\ x[2] < 2^14

SmallValue(x) == x[1] + x[2] * LimbBase

\* the error classes of the specification
InvalidInput(e) ==
    /\ e.type = "ValueError"
    /\ e.msg \in {"Input must be a positive integer",
                  "Input must be a positive integer for bijective conversion."}

InvalidCharacter(e) ==
    /\ e.type = "ValueError"
    /\ e.msg \in {"Invalid character in short code",
                  "Invalid character in short code. Only '1'-'6' are allowed."}

EmptyInput(e) == e.type = "ValueError" /\ e.msg = "Input string cannot be empty."

ErrorKind(e) ==
    CASE e = NoError -> "none"
      [] InvalidInput(e) -> "InvalidInput"
      [] InvalidCharacter(e) -> "InvalidCharacter"
      [] EmptyInput(e) -> "EmptyInput"
      [] OTHER -> "other"

Done == pc = "done"


(***************************************************************************)
(* Properties                                                              *)
(***************************************************************************)

\* C1: round trip. When encode has served an n >= 1 and the caller decodes the
\* code it was given, decode hands back exactly n (and encode did give a code).
C1_RoundTrip ==
    (Done /\ prev.op = "encode" /\ Positive64(prev.arg)) =>
        /\ prev.ret.tag = "str"
        /\ (op = "decode" /\ arg = prev.ret.val) =>
               (ret = [tag |-> "int", val |-> prev.arg] /\ err = NoError)

C1_Witness ==
    /\ Done /\ op = "decode" /\ prev.op = "encode"
    /\ prev.arg = TenMillion /\ arg = CodeTenMillion
    /\ ret = [tag |-> "int", val |-> TenMillion]

\* C2: encode of n <= 0 never enters its loop, builds no partial result, and
\* ends with an invalid-input error and nothing handed to the caller.
C2_NonPositiveRejected ==
    (op = "encode" /\ ~Positive64(arg)) =>
        /\ pc # "loop"
        /\ result_str = <<>>
        /\ impl_ret = <<>>
        /\ Done => (ret = Null /\ InvalidInput(err))

C2_Witness ==
    /\ Done /\ op = "encode" /\ variant = "mymath"
    /\ arg = ToInt64(-5) /\ ret = Null /\ InvalidInput(err)

HasStranger(s) == \E k \in 1..Len(s) : s[k] \notin Symbols

\* C3: decode of a string with a character outside '1'..'6' at any position
\* ends with an invalid-character error and hands no integer to the caller,
\* whatever was accumulated before.
C3_StrangerRejected ==
    (Done /\ op = "decode" /\ HasStranger(arg)) =>
        (ret = Null /\ InvalidCharacter(err))

C3_Witness ==
    /\ Done /\ op = "decode"
    /\ arg = Repeat("6", 25) \o <<"a">>
    /\ i = 25 /\ n # Zero64
    /\ ret = Null /\ InvalidCharacter(err)

\* C4: monotonicity. Of two encodes of positive n1 < n2, the code of n1 comes
\* before the code of n2 in shortlex order.
C4_Monotone ==
    (Done /\ op = "encode" /\ prev.op = "encode"
          /\ Positive64(arg) /\ Positive64(prev.arg)) =>
        /\ ret.tag = "str" /\ prev.ret.tag = "str"
        /\ Less64(prev.arg, arg) => ShortlexLess(prev.ret.val, ret.val)
        /\ Less64(arg, prev.arg) => ShortlexLess(ret.val, prev.ret.val)

C4_Witness ==
    /\ Done /\ op = "encode" /\ prev.op = "encode"
    /\ prev.arg = ToInt64(6) /\ arg = ToInt64(7)
    /\ prev.ret.val = <<"6">> /\ ret.val = <<"1", "1">>

\* C5: encode is total and well-formed on n >= 1: the call reaches its return
\* with n = 0 and a non-empty code over '1'..'6', and every symbol it appends
\* on the way is one of '1'..'6'.
C5_EncodeTotal ==
    /\ []((op = "encode") => \A k \in 1..Len(result_str) : result_str[k] \in Symbols)
    /\ (pc = "entry" /\ op = "encode" /\ Positive64(arg))
          ~> (Done /\ op = "encode" /\ n = Zero64
                   /\ ret.tag = "str" /\ IsCode(ret.val))

C5_Witness ==
    /\ Done /\ op = "encode" /\ arg = Int64Max
    /\ n = Zero64 /\ ret.tag = "str" /\ Len(ret.val) = 25 /\ IsCode(ret.val)

\* C6: encode gives the bijective base-6 numeral of n, most significant symbol
\* first: a code whose positional value is n, the n-th code of the shortlex
\* list, and "1", "6", "11", "16", "21" for 1, 6, 7, 12, 13.
C6_EncodeIsNumeral ==
    (Done /\ op = "encode" /\ Positive64(arg)) =>
        /\ ret.tag = "str" /\ IsCode(ret.val)
        /\ PosValue(ret.val) = BigOfInt64(arg)
        /\ (IsSmall(arg) /\ SmallValue(arg) <= Cardinality(ShortCodes)) =>
               Rank(ret.val) = SmallValue(arg)
        /\ arg = ToInt64(1) => ret.val = <<"1">>
        /\ arg = ToInt64(6) => ret.val = <<"6">>
        /\ arg = ToInt64(7) => ret.val = <<"1", "1">>
        /\ arg = ToInt64(12) => ret.val = <<"1", "6">>
        /\ arg = ToInt64(13) => ret.val = <<"2", "1">>

C6_Witness ==
    /\ Done /\ op = "encode" /\ arg = ToInt64(13) /\ ret.val = <<"2", "1">>

\* C7: decode of a code whose positional value (digit values 1..6) fits a long
\* long hands back that value; 1, 6, 7, 12 for "1", "6", "11", "16".
C7_DecodeIsValue ==
    (Done /\ op = "decode" /\ IsCode(arg) /\ FitsInt64(PosValue(arg))) =>
        /\ ret = [tag |-> "int", val |-> Int64OfBig(PosValue(arg))]
        /\ err = NoError
        /\ arg = <<"1">> => ret.val = ToInt64(1)
        /\ arg = <<"6">> => ret.val = ToInt64(6)
        /\ arg = <<"1", "1">> => ret.val = ToInt64(7)
        /\ arg = <<"1", "6">> => ret.val = ToInt64(12)

C7_Witness ==
    /\ Done /\ op = "decode" /\ arg = CodeInt64Max
    /\ ret = [tag |-> "int", val |-> Int64Max]

\* C8: bijection on codes. A code c whose value fits a long long decodes to a
\* positive integer, and encoding that integer gives back c.
C8_CodeRoundTrip ==
    (Done /\ prev.op = "decode" /\ IsCode(prev.arg)
          /\ FitsInt64(PosValue(prev.arg))) =>
        /\ prev.ret.tag = "int" /\ Positive64(prev.ret.val)
        /\ (op = "encode" /\ arg = prev.ret.val) =>
               (ret = [tag |-> "str", val |-> prev.arg] /\ err = NoError)

C8_Witness ==
    /\ Done /\ op = "encode" /\ prev.op = "decode"
    /\ prev.arg = Repeat("6", 24) /\ arg = prev.ret.val
    /\ ret = [tag |-> "str", val |-> Repeat("6", 24)]

\* C9: decode of every code, of any length, hands back a positive integer.
C9_DecodePositive ==
    (Done /\ op = "decode" /\ IsCode(arg)) =>
        (ret.tag = "int" /\ Positive64(ret.val))

\* C10: the two files agree on every call but decode of the empty string: same
\* value or same class of error; on the empty string mymath.cpp hands back 0
\* with no error and mymath_cpp.cpp fails.
C10_VariantsAgree ==
    (Done /\ prev.op = op /\ prev.arg = arg /\ prev.variant # variant) =>
        LET a == IF variant = "mymath" THEN [ret |-> ret, err |-> err]
                 ELSE [ret |-> prev.ret, err |-> prev.err]
            b == IF variant = "mymath" THEN [ret |-> prev.ret, err |-> prev.err]
                 ELSE [ret |-> ret, err |-> err]
        IN  IF op = "decode" /\ arg = <<>>
            THEN /\ a.ret = [tag |-> "int", val |-> Zero64] /\ a.err = NoError
                 /\ b.ret = Null /\ b.err # NoError
            ELSE /\ a.ret = b.ret
                 /\ ErrorKind(a.err) = ErrorKind(b.err)

C10_Witness ==
    /\ Done /\ op = "decode" /\ arg = <<>>
    /\ prev.op = "decode" /\ prev.arg = <<>>
    /\ prev.variant = "mymath" /\ variant = "mymath_cpp"
    /\ prev.ret = [tag |-> "int", val |-> Zero64] /\ ret = Null

====
